---- MODULE Spec2Model ----
(***************************************************************************)
(* A model of the unification and enumeration core of atomicdatabase:      *)
(* src/src/database/mod.rs (DBValue, Database) and                          *)
(* src/src/database/unification.rs (lax_unify, unify_pattern_match,         *)
(* unify_compare, PossibleBindings).                                        *)
(*                                                                         *)
(* Strings are sequences of character codes, so that to_uppercase and the  *)
(* lexicographic order of Text are computed and not assumed.  A HashMap is *)
(* a function whose DOMAIN is its key set.  A lazy iterator is its tape:   *)
(* the sequence of values its next() calls will return; next() pops the    *)
(* head of the tape and returns None on an empty tape.                     *)
(***************************************************************************)
EXTENDS Integers, Sequences, FiniteSets

VARIABLES facts, rules, pc, pb, out, call, ret

vars == <<facts, rules, pc, pb, out, call, ret>>

----------------------------------------------------------------------------
(* Bounds of the model.                                                    *)

\* at most this many insert_fact calls before the database is shared
MaxFacts == 2
\* at most this many next() calls on one stream
MaxCalls == 5

----------------------------------------------------------------------------
(* Small helpers.                                                          *)

Min(a, b) == IF a <= b THEN a ELSE b

RECURSIVE Reverse(_)
Reverse(s) == IF s = <<>> THEN <<>> ELSE Reverse(Tail(s)) \o <<Head(s)>>

\* the first n elements of s (Iterator::take)
Take(s, n) == SubSeq(s, 1, Min(n, Len(s)))

\* Vec::remove(1): drop the element at (0-based) index 1
RemoveSecond(s) == <<s[1]>> \o SubSeq(s, 3, Len(s))

----------------------------------------------------------------------------
(* Strings and DBValue (mod.rs).                                           *)

\* char::to_uppercase on the ASCII letters
CharUpper(c) == IF c >= 97 /\ c <= 122 THEN c - 32 ELSE c

to_uppercase(s) == [i \in 1..Len(s) |-> CharUpper(s[i])]

Text(s) == [tag |-> "Text", s |-> s]
Number(n) == [tag |-> "Number", n |-> n]
Float(n, d) == [tag |-> "Float", n |-> n, d |-> d]
RelationID(s) == [tag |-> "RelationID", s |-> s]
List(xs) == [tag |-> "List", xs |-> xs]

\* Ord::cmp on integers
IntCmp(a, b) == IF a < b THEN "Less" ELSE IF a = b THEN "Equal" ELSE "Greater"

\* Ord::cmp on strings: lexicographic on the character codes
RECURSIVE StrCmp(_, _)
StrCmp(s, t) ==
  IF s = <<>> THEN (IF t = <<>> THEN "Equal" ELSE "Less")
  ELSE IF t = <<>> THEN "Greater"
  ELSE IF Head(s) # Head(t) THEN IntCmp(Head(s), Head(t))
  ELSE StrCmp(Tail(s), Tail(t))

\* impl PartialEq for DBValue
DBValue_eq(a, b) ==
  CASE a.tag = "Text" /\ b.tag = "Text" -> a.s = b.s
    [] a.tag = "Number" /\ b.tag = "Number" -> a.n = b.n
    [] a.tag = "Number" /\ b.tag = "Float" -> b.d = 0 /\ a.n = b.n
    [] a.tag = "Float" /\ b.tag = "Number" -> a.d = 0 /\ a.n = b.n
    [] a.tag = "Float" /\ b.tag = "Float" -> a.d = b.d /\ a.n = b.n
    [] a.tag = "RelationID" /\ b.tag = "RelationID" ->
         to_uppercase(a.s) = to_uppercase(b.s)
    [] OTHER -> FALSE

\* impl PartialOrd for DBValue: "None" is Option::None
DBValue_partial_cmp(a, b) ==
  CASE a.tag = "Text" /\ b.tag = "Text" -> StrCmp(a.s, b.s)
    [] a.tag = "Number" /\ b.tag = "Number" -> IntCmp(a.n, b.n)
    [] a.tag = "Number" /\ b.tag = "Float" ->
         IF a.n = b.n THEN IntCmp(0, b.d) ELSE IntCmp(a.n, b.n)
    [] a.tag = "Float" /\ b.tag = "Number" ->
         IF a.n = b.n THEN IntCmp(0, a.d) ELSE IntCmp(a.n, b.n)
    [] a.tag = "Float" /\ b.tag = "Float" ->
         IF a.n = b.n THEN IntCmp(a.d, b.d) ELSE IntCmp(a.n, b.n)
    [] OTHER -> "None"

\* the comparison operators PartialOrd derives from partial_cmp, and == from eq
DBValue_op(op, a, b) ==
  CASE op = "GreaterThan" -> DBValue_partial_cmp(a, b) = "Greater"
    [] op = "EqualTo" -> DBValue_eq(a, b)
    [] op = "LessThan" -> DBValue_partial_cmp(a, b) = "Less"
    [] op = "LessThanOrEqualTo" -> DBValue_partial_cmp(a, b) \in {"Less", "Equal"}
    [] op = "GreaterThanOrEqualTo" ->
         DBValue_partial_cmp(a, b) \in {"Greater", "Equal"}

EqOp == {"GreaterThan", "EqualTo", "LessThan", "LessThanOrEqualTo",
         "GreaterThanOrEqualTo"}

----------------------------------------------------------------------------
(* Value and Bindings (unification.rs).                                    *)

Literal(v) == [tag |-> "Literal", v |-> v]
Variable(name) == [tag |-> "Variable", name |-> name]
PatternMatch(explicit_values, is_glob, glob_position) ==
  [tag |-> "PatternMatch", explicit_values |-> explicit_values,
   is_glob |-> is_glob, glob_position |-> glob_position]

VariableName == {"X", "Y"}

\* HashMap::new()
EmptyBindings == [k \in {} |-> 0]

\* HashMap::insert: the new value replaces an older one
Insert(b, k, v) == [x \in (DOMAIN b) \cup {k} |-> IF x = k THEN v ELSE b[x]]

\* HashMap::len
MapLen(b) == Cardinality(DOMAIN b)

\* Results.  Ok and Err carry bindings; Panic is a Rust panic (the thread
\* unwinds); Overflow is unbounded recursion (the stack overflows).
Ok(e) == [tag |-> "Ok", env |-> e]
Err(e) == [tag |-> "Err", env |-> e]
Panic == [tag |-> "Panic"]
Overflow == [tag |-> "Overflow"]
None == [tag |-> "None"]

Crashed(r) == r.tag \in {"Panic", "Overflow"}

\* A chain of bindings that passes through more variables than there are is
\* cyclic, and following it never ends.
MaxDepth == Cardinality(VariableName)

----------------------------------------------------------------------------
(* The unifier (unification.rs, lines 73-249).                             *)

IsListLiteral(v) == v.tag = "Literal" /\ v.v.tag = "List"

\* list.into_iter().map(|x| Literal(x)).collect()
AsLiterals(xs) == [i \in 1..Len(xs) |-> Literal(xs[i])]

RECURSIVE lax_unify_from(_, _, _, _, _)
RECURSIVE unify_pattern_match(_, _, _, _, _, _)
RECURSIVE middle_from(_, _, _, _, _, _)

\* lax_unify(av, bv, bindings), with the stack depth left for binding chains
lax_unify_depth(av, bv, bindings, depth) ==
  lax_unify_from(av, bv, bindings, 1, depth)

\* "if let Ok(binds) = partials { new_bindings = binds } else { return partials }"
\* and on to pair k + 1
OkOrReturn(partials, av, bv, k, depth) ==
  IF partials.tag = "Ok"
  THEN lax_unify_from(av, bv, partials.env, k + 1, depth)
  ELSE partials

\* the loop body of lax_unify at pair k of av.zip(bv); nb is new_bindings
lax_unify_from(av, bv, nb, k, depth) ==
  IF k > Min(Len(av), Len(bv)) THEN Ok(nb)
  ELSE
    CASE av[k].tag = "Literal" /\ bv[k].tag = "Literal" ->
           IF DBValue_eq(av[k].v, bv[k].v)
           THEN lax_unify_from(av, bv, nb, k + 1, depth)
           ELSE Err(nb)
      [] av[k].tag = "Variable" /\ bv[k].tag = "Literal" ->
           IF av[k].name \in DOMAIN nb
           THEN IF depth = 0 THEN Overflow
                ELSE OkOrReturn(
                       lax_unify_depth(<<nb[av[k].name]>>, <<bv[k]>>, nb,
                                       depth - 1),
                       av, bv, k, depth)
           ELSE lax_unify_from(av, bv, Insert(nb, av[k].name, bv[k]),
                               k + 1, depth)
      [] av[k].tag = "Literal" /\ bv[k].tag = "Variable" ->
           IF bv[k].name \in DOMAIN nb
           THEN IF depth = 0 THEN Overflow
                ELSE OkOrReturn(
                       lax_unify_depth(<<av[k]>>, <<nb[bv[k].name]>>, nb,
                                       depth - 1),
                       av, bv, k, depth)
           ELSE lax_unify_from(av, bv, Insert(nb, bv[k].name, av[k]),
                               k + 1, depth)
      [] av[k].tag = "Variable" /\ bv[k].tag = "Variable" ->
           lax_unify_from(av, bv,
                          Insert(nb, av[k].name, Variable(bv[k].name)),
                          k + 1, depth)
      [] IsListLiteral(av[k]) /\ bv[k].tag = "PatternMatch" ->
           OkOrReturn(
             unify_pattern_match(av[k].v.xs, bv[k].explicit_values,
                                 bv[k].is_glob, bv[k].glob_position, nb, depth),
             av, bv, k, depth)
      [] av[k].tag = "PatternMatch" /\ IsListLiteral(bv[k]) ->
           OkOrReturn(
             unify_pattern_match(bv[k].v.xs, av[k].explicit_values,
                                 av[k].is_glob, av[k].glob_position, nb, depth),
             av, bv, k, depth)
      [] OTHER -> Err(nb)

\* the choice between this attempt's partials and the output kept so far
\* (lines 234-242)
KeepBest(partials, output) ==
  IF partials.tag = "Ok" THEN partials
  ELSE IF output.tag = "Err"
       THEN IF MapLen(partials.env) > MapLen(output.env)
            THEN partials ELSE output
       ELSE output

\* after the attempt at start index i: a crash ends the call, else on to i + 1
MiddleStep(partials, list, explicit_values, new_bindings, i, output, depth) ==
  IF Crashed(partials) THEN partials
  ELSE middle_from(list, explicit_values, new_bindings, i + 1,
                   KeepBest(partials, output), depth)

\* the GlobPosition::Middle loop at (0-based) start index i, with the output
\* kept so far; list[i..i + n] panics when i + n exceeds the length
middle_from(list, explicit_values, new_bindings, i, output, depth) ==
  IF i >= Len(list) THEN output
  ELSE IF i + Len(explicit_values) > Len(list) THEN Panic
  ELSE MiddleStep(
         lax_unify_depth(explicit_values,
                         SubSeq(list, i + 1, i + Len(explicit_values)),
                         new_bindings, depth),
         list, explicit_values, new_bindings, i, output, depth)

\* the second sequence unify_pattern_match unifies explicit_values with, for
\* every pattern but a glob Middle
PatternTarget(list, n, is_glob, glob_position) ==
  IF ~is_glob THEN AsLiterals(list)
  ELSE IF glob_position = "Head" THEN AsLiterals(Take(list, n))
  ELSE AsLiterals(Take(Reverse(list), n))

unify_pattern_match(list, explicit_values, is_glob, glob_position, new_bindings, depth) ==
  IF is_glob /\ glob_position = "Middle"
  THEN middle_from(AsLiterals(list), explicit_values, new_bindings, 0,
                   Err(EmptyBindings), depth)
  ELSE lax_unify_depth(explicit_values,
                       PatternTarget(list, Len(explicit_values), is_glob,
                                     glob_position),
                       new_bindings, depth)

\* lax_unify refusing sequences of different lengths
lax_unify_strict(av, bv, bindings) ==
  IF Len(av) # Len(bv) THEN Err(bindings)
  ELSE lax_unify_depth(av, bv, bindings, MaxDepth)

lax_unify(av, bv, bindings) == lax_unify_depth(av, bv, bindings, MaxDepth)

\* Result<Rc<Bindings>, Rc<Bindings>>: the Rc is a fresh one around the result
lax_unify_wrap(av, bv, bindings) == lax_unify(av, bv, bindings)

\* Result::ok(): an Err becomes None
ResultOk(r) == IF r.tag = "Err" THEN None ELSE r

\* Option<Rc<Bindings>>
unify_wrap(av, bv, bindings) == ResultOk(lax_unify(av, bv, bindings))

\* the result r of a call, and the map behind the Rc after a call that worked
\* on that map itself
InPlace(r, bindings) ==
  [shared |-> IF r.tag \in {"Ok", "Err"} THEN r.env ELSE bindings,
   result |-> r]

\* lax_unify_wrap working on the Rc's own map instead of a copy
lax_unify_wrap_in_place(av, bv, bindings) ==
  InPlace(lax_unify(av, bv, bindings), bindings)

\* lax_unify_wrap seen from the holders of the Rc: `inner` is a copy of the
\* map behind the Rc (line 88) and lax_unify is handed the copy, so the map
\* behind the Rc is after the call what it was before
lax_unify_wrap_rc(av, bv, bindings) ==
  [shared |-> bindings, result |-> lax_unify_wrap(av, bv, bindings)]

\* unify_wrap likewise (line 78)
unify_wrap_rc(av, bv, bindings) ==
  [shared |-> bindings, result |-> unify_wrap(av, bv, bindings)]

RECURSIVE unify_compare_depth(_, _, _, _, _)
\* "true", "false", or "overflow" when the recursion never returns
unify_compare_depth(op, a, b, bindings, depth) ==
  CASE a.tag = "Literal" /\ b.tag = "Literal" ->
         IF DBValue_op(op, a.v, b.v) THEN "true" ELSE "false"
    [] a.tag = "Variable" /\ b.tag = "Literal" ->
         IF a.name \in DOMAIN bindings
         THEN IF depth = 0 THEN "overflow"
              ELSE unify_compare_depth(op, bindings[a.name], b, bindings,
                                       depth - 1)
         ELSE "true"
    [] a.tag = "Literal" /\ b.tag = "Variable" ->
         IF b.name \in DOMAIN bindings
         THEN IF depth = 0 THEN "overflow"
              ELSE unify_compare_depth(op, a, bindings[b.name], bindings,
                                       depth - 1)
         ELSE "true"
    [] a.tag = "Variable" /\ b.tag = "Variable" ->
         IF a.name \in DOMAIN bindings /\ b.name \in DOMAIN bindings
         THEN IF depth = 0 THEN "overflow"
              ELSE unify_compare_depth(op, bindings[a.name], bindings[b.name],
                                       bindings, depth - 1)
         ELSE "true"
    [] OTHER -> "false"

\* unify_compare giving up on a chain of bindings that does not end
unify_compare_loop_check(op, a, b, bindings) ==
  IF unify_compare_depth(op, a, b, bindings, MaxDepth) = "overflow"
  THEN "false"
  ELSE unify_compare_depth(op, a, b, bindings, MaxDepth)

unify_compare(op, a, b, bindings) ==
  unify_compare_depth(op, a, b, bindings, MaxDepth)

----------------------------------------------------------------------------
(* Constraint and Database.                                                *)

Relation(id, tokens) == [tag |-> "Relation", id |-> id, tokens |-> tokens]
Unification(avs, bvs) == [tag |-> "Unification", avs |-> avs, bvs |-> bvs]
Comparison(op, a, b) == [tag |-> "Comparison", op |-> op, a |-> a, b |-> b]
Not(c) == [tag |-> "Not", c |-> c]
Alternatives(cs) == [tag |-> "Alternatives", cs |-> cs]
Intersections(cs) == [tag |-> "Intersections", cs |-> cs]

\* Constraint::new_relation: Ok(constraint) or Err(message)
new_relation(vs) ==
  IF Len(vs) >= 2 /\ vs[2].tag = "Literal" /\ vs[2].v.tag = "RelationID"
  THEN [tag |-> "Ok",
        constraint |-> Relation(to_uppercase(vs[2].v.s), RemoveSecond(vs))]
  ELSE [tag |-> "Err"]

\* Database::new()
NewDatabase == [facts |-> EmptyBindings, rules |-> EmptyBindings]

\* insert_fact(vs) on the facts table fs: the table after it, or a panic
insert_fact(fs, vs) ==
  IF Len(vs) >= 2 /\ vs[2].tag = "RelationID"
  THEN LET rel == to_uppercase(vs[2].s)
           stored == RemoveSecond(vs)
       IN [tag |-> "Done",
           facts |-> IF rel \in DOMAIN fs
                     THEN [fs EXCEPT ![rel] = Append(@, stored)]
                     ELSE Insert(fs, rel, <<stored>>)]
  ELSE Panic

\* the rules table after insert_rule(id, args, constraints)
insert_rule(rs, id, args, constraints) ==
  Insert(rs, to_uppercase(id), [args |-> args, constraints |-> constraints])

----------------------------------------------------------------------------
(* Iterators as tapes.                                                     *)

\* Iterator::next on a tape
TapeNext(t) ==
  IF t = <<>> THEN [item |-> None, rest |-> <<>>]
  ELSE [item |-> Head(t), rest |-> Tail(t)]

\* a tape ends at its first crash: nothing runs after a panic
RECURSIVE UntilCrash(_)
UntilCrash(t) ==
  IF t = <<>> THEN <<>>
  ELSE IF Crashed(Head(t)) THEN <<Head(t)>>
  ELSE <<Head(t)>> \o UntilCrash(Tail(t))

\* what a consumer that stops at the first None (a for loop, flat_map's
\* inner loop) draws from a tape
RECURSIVE UntilNone(_)
UntilNone(t) ==
  IF t = <<>> THEN <<>>
  ELSE IF Head(t).tag = "None" THEN <<>>
  ELSE IF Crashed(Head(t)) THEN <<Head(t)>>
  ELSE <<Head(t)>> \o UntilNone(Tail(t))

EndsCrashed(t) == t # <<>> /\ Crashed(t[Len(t)])

\* one tape after the other, unless the first crashed
Chain(a, b) == IF EndsCrashed(a) THEN a ELSE a \o b

\* InnerFactPossibilitiesIter with the facts visited last to first
InnerFactPossibilitiesIter_reversed(id, tokens, db, bindings) ==
  IF id \in DOMAIN db.facts
  THEN UntilCrash([k \in 1..Len(db.facts[id]) |->
                     lax_unify_wrap(tokens,
                                    AsLiterals(Reverse(db.facts[id])[k]),
                                    bindings)])
  ELSE <<>>

\* InnerFactPossibilitiesIter: one lax_unify_wrap per fact from fact_index 0
InnerFactPossibilitiesIter(id, tokens, db, bindings) ==
  IF id \in DOMAIN db.facts
  THEN UntilCrash([k \in 1..Len(db.facts[id]) |->
                     lax_unify_wrap(tokens, AsLiterals(db.facts[id][k]),
                                    bindings)])
  ELSE <<>>

\* .map(|x| x.map_or_else(|x| Ok(x), |x| Err(x)))
SwapResult(x) ==
  CASE x.tag = "Ok" -> Err(x.env)
    [] x.tag = "Err" -> Ok(x.env)
    [] OTHER -> x

MapSwap(t) == [k \in 1..Len(t) |-> SwapResult(t[k])]

\* PossibleBindings::new
PossibleBindings_new(constraint, bindings) ==
  [constraint |-> constraint, bindings |-> bindings,
   current_fact_possibilities |-> <<>>, current_rule_possibilities |-> <<>>,
   done |-> FALSE]

RECURSIVE PossibleBindings_tape(_, _, _)
RECURSIVE FlatMap(_, _, _)
RECURSIVE BacktrackingQuery(_, _, _)
RECURSIVE BacktrackOver(_, _, _)
RECURSIVE PossibleBindings_run(_, _)

\* FlatMap with the alternatives drawn last to first
RECURSIVE FlatMap_reversed(_, _, _)
FlatMap_reversed(constraints, db, bindings) ==
  IF constraints = <<>> THEN <<>>
  ELSE Chain(FlatMap_reversed(Tail(constraints), db, bindings),
             UntilNone(PossibleBindings_tape(Head(constraints), db, bindings)))

\* constraints.iter().flat_map(|c| PossibleBindings::new(c, db, bindings)):
\* each inner stream is drawn until its first None, then dropped
FlatMap(constraints, db, bindings) ==
  IF constraints = <<>> THEN <<>>
  ELSE Chain(UntilNone(PossibleBindings_tape(Head(constraints), db, bindings)),
             FlatMap(Tail(constraints), db, bindings))

\* The driver (backtracking.rs): depth-first over the constraint list; for
\* each Ok drawn from the head's stream, drive the rest; Errs are discarded.
\* The items are the emitted bindings, here already wrapped by .map(|x| Ok(x)).
BacktrackingQuery(constraints, db, bindings) ==
  IF constraints = <<>> THEN <<Ok(bindings)>>
  ELSE BacktrackOver(
         UntilNone(PossibleBindings_tape(Head(constraints), db, bindings)),
         Tail(constraints), db)

BacktrackOver(candidates, rest, db) ==
  IF candidates = <<>> THEN <<>>
  ELSE LET c == Head(candidates) IN
       IF Crashed(c) THEN <<c>>
       ELSE IF c.tag = "Ok"
       THEN Chain(BacktrackingQuery(rest, db, c.env),
                  BacktrackOver(Tail(candidates), rest, db))
       ELSE BacktrackOver(Tail(candidates), rest, db)

\* vec![Ok(bindings)] when unify_compare is true, empty() when false
ComparisonTape(r, bindings) ==
  IF r = "true" THEN <<Ok(bindings)>>
  ELSE IF r = "false" THEN <<>>
  ELSE <<Overflow>>

\* vec![Ok(new_bindings)] when unify_wrap is Some, empty() when None
UnificationTape(r) == IF r.tag = "None" THEN <<>> ELSE <<r>>

\* InnerBacktrackingQueryIter::new: the rule's body driven from the bindings
\* r that unify_wrap(tokens, params, bindings) returned
RuleTape(r, constraints, db) ==
  IF r.tag = "None" THEN <<>>
  ELSE IF Crashed(r) THEN <<r>>
  ELSE BacktrackingQuery(constraints, db, r.env)

\* Materialize with the rule expansion of lines 434-445 wired in: a Relation
\* whose id names a rule also opens the stream of the rule's body
Materialize_with_rules(constraint, db, bindings) ==
  CASE constraint.tag = "Relation" ->
         [fact |-> InnerFactPossibilitiesIter(constraint.id, constraint.tokens,
                                              db, bindings),
          rule |-> IF constraint.id \in DOMAIN db.rules
                   THEN RuleTape(
                          unify_wrap(constraint.tokens,
                                     db.rules[constraint.id].args, bindings),
                          db.rules[constraint.id].constraints, db)
                   ELSE <<>>]
    [] constraint.tag = "Comparison" ->
         [fact |-> ComparisonTape(
                     unify_compare(constraint.op, constraint.a, constraint.b,
                                   bindings),
                     bindings),
          rule |-> <<>>]
    [] constraint.tag = "Unification" ->
         [fact |-> UnificationTape(
                     unify_wrap(constraint.avs, constraint.bvs, bindings)),
          rule |-> <<>>]
    [] constraint.tag = "Not" ->
         [fact |-> MapSwap(PossibleBindings_tape(constraint.c, db, bindings)),
          rule |-> <<>>]
    [] constraint.tag = "Alternatives" ->
         [fact |-> FlatMap(constraint.cs, db, bindings),
          rule |-> <<>>]
    [] constraint.tag = "Intersections" ->
         [fact |-> <<>>,
          rule |-> BacktrackingQuery(constraint.cs, db, bindings)]

\* the match of PossibleBindings::next (lines 426-501): the two sub-streams
\* the constraint opens
Materialize(constraint, db, bindings) ==
  CASE constraint.tag = "Relation" ->
         [fact |-> InnerFactPossibilitiesIter(constraint.id, constraint.tokens,
                                              db, bindings),
          rule |-> <<>>]
    [] constraint.tag = "Comparison" ->
         [fact |-> ComparisonTape(
                     unify_compare(constraint.op, constraint.a, constraint.b,
                                   bindings),
                     bindings),
          rule |-> <<>>]
    [] constraint.tag = "Unification" ->
         [fact |-> UnificationTape(
                     unify_wrap(constraint.avs, constraint.bvs, bindings)),
          rule |-> <<>>]
    [] constraint.tag = "Not" ->
         [fact |-> MapSwap(PossibleBindings_tape(constraint.c, db, bindings)),
          rule |-> <<>>]
    [] constraint.tag = "Alternatives" ->
         [fact |-> FlatMap(constraint.cs, db, bindings),
          rule |-> <<>>]
    [] constraint.tag = "Intersections" ->
         [fact |-> <<>>,
          rule |-> BacktrackingQuery(constraint.cs, db, bindings)]

\* lines 502-503: done = true, then current_fact_possibilities.next() on the
\* streams m just opened
FirstOfOpened(self, m) ==
  [self |-> [self EXCEPT
               !.current_fact_possibilities = TapeNext(m.fact).rest,
               !.current_rule_possibilities = m.rule,
               !.done = TRUE],
   item |-> TapeNext(m.fact).item]

\* PossibleBindings::next: the state after the call and the value returned
PossibleBindings_next(self, db) ==
  IF self.current_fact_possibilities # <<>>
     /\ Head(self.current_fact_possibilities).tag # "None"
  THEN [self |-> [self EXCEPT !.current_fact_possibilities = Tail(@)],
        item |-> Head(self.current_fact_possibilities)]
  ELSE IF self.current_rule_possibilities # <<>>
          /\ Head(self.current_rule_possibilities).tag # "None"
  THEN [self |-> [self EXCEPT
                    !.current_fact_possibilities = TapeNext(@).rest,
                    !.current_rule_possibilities = Tail(@)],
        item |-> Head(self.current_rule_possibilities)]
  ELSE IF ~self.done
  THEN FirstOfOpened(self, Materialize(self.constraint, db, self.bindings))
  ELSE [self |-> [self EXCEPT
                    !.current_fact_possibilities = TapeNext(@).rest,
                    !.current_rule_possibilities = TapeNext(@).rest],
        item |-> None]

Exhausted(self) ==
  /\ self.done
  /\ self.current_fact_possibilities = <<>>
  /\ self.current_rule_possibilities = <<>>

\* the value n.item a next() call returned, then the run of the stream n.self
RunOn(n, db) ==
  IF Crashed(n.item) THEN <<n.item>>
  ELSE <<n.item>> \o PossibleBindings_run(n.self, db)

\* the values successive next() calls return, up to the last that is not
\* forced to be None
PossibleBindings_run(self, db) ==
  IF Exhausted(self) THEN <<>>
  ELSE RunOn(PossibleBindings_next(self, db), db)

PossibleBindings_tape(constraint, db, bindings) ==
  PossibleBindings_run(PossibleBindings_new(constraint, bindings), db)

----------------------------------------------------------------------------
(* The inputs the model draws from.                                        *)

\* "p", "P", "q", "Q" as character codes
Name_p == <<112>>
Name_P == <<80>>
Name_q == <<113>>
Name_Q == <<81>>

N1 == Number(1)
N2 == Number(2)
L1 == Literal(N1)
L2 == Literal(N2)
VX == Variable("X")
VY == Variable("Y")

\* tuples handed to insert_fact; the last two are malformed
GoodFactTuples ==
  { <<N1, RelationID(Name_p)>>,
    <<N2, RelationID(Name_P)>>,
    <<N1, RelationID(Name_q), N2>> }

BadFactTuples == { <<N1>>, <<N1, N2>> }

\* tuples handed to Constraint::new_relation; the last is malformed
RelationTuples ==
  { <<VX, Literal(RelationID(Name_p))>>,
    <<L1, Literal(RelationID(Name_P))>>,
    <<VX, Literal(RelationID(Name_q)), VY>>,
    <<VX, L1>> }

\* environments a caller starts a query with
Envs == { EmptyBindings, [k \in {"X"} |-> L1] }

MiddleXY == PatternMatch(<<VX, VY>>, TRUE, "Middle")

\* constraints built directly with the enum's constructors
RelationLeaves ==
  { Relation(Name_P, <<VX>>),
    Relation(Name_P, <<L1>>),
    Relation(Name_p, <<VX>>),
    Relation(Name_Q, <<VX, VY>>),
    Relation(Name_Q, <<VX>>),
    Relation(Name_Q, <<VX, L1>>) }

ComparisonLeaves ==
  { Comparison("LessThan", VX, L1),
    Comparison("GreaterThan", VX, L1),
    Comparison("EqualTo", L1, L2) }

UnificationLeaves ==
  { Unification(<<VX>>, <<L2>>),
    Unification(<<L1>>, <<L2>>),
    Unification(<<VX, VX>>, <<L1, VY>>),
    Unification(<<Literal(List(<<N1, N2>>))>>, <<MiddleXY>>),
    Unification(<<Literal(List(<<N1>>))>>, <<Literal(List(<<N1>>))>>) }

Leaves == RelationLeaves \cup ComparisonLeaves \cup UnificationLeaves

\* the leaves that are combined in lists of two
PairLeaves ==
  { Relation(Name_P, <<VX>>),
    Relation(Name_P, <<L1>>),
    Comparison("LessThan", VX, L1),
    Unification(<<VX>>, <<L2>>) }

ConstraintLists ==
  {<<>>} \cup { <<c>> : c \in Leaves }
         \cup { <<c, d>> : c \in PairLeaves, d \in PairLeaves }

Constraints ==
  Leaves
    \cup { Not(c) : c \in Leaves }
    \cup { Not(Not(c)) : c \in Leaves }
    \cup { Alternatives(cs) : cs \in ConstraintLists }
    \cup { Intersections(cs) : cs \in ConstraintLists }
    \cup { Not(Intersections(<<c>>)) : c \in PairLeaves }
    \cup { Alternatives(<<Intersections(<<c>>), d>>) :
             c \in PairLeaves, d \in {Unification(<<VX>>, <<L2>>)} }

\* the one rule insert_rule is called with, under either spelling of its id
RuleIds == {Name_p, Name_P}
RuleArgs == <<VX>>
RuleBody == <<Unification(<<VX>>, <<L2>>)>>

NoCall == [fn |-> "none"]

----------------------------------------------------------------------------
(* The store and the streams as a state machine.                           *)

db == [facts |-> facts, rules |-> rules]

NumFacts == LET RECURSIVE Sum(_)
                Sum(S) == IF S = {} THEN 0
                          ELSE LET k == CHOOSE x \in S : TRUE
                               IN Len(facts[k]) + Sum(S \ {k})
            IN Sum(DOMAIN facts)

Init ==
  /\ facts = NewDatabase.facts
  /\ rules = NewDatabase.rules
  /\ pc = "idle"
  /\ pb = PossibleBindings_new(Intersections(<<>>), EmptyBindings)
  /\ out = <<>>
  /\ call = NoCall
  /\ ret = NoCall

\* Database::insert_fact on a well-formed or a malformed tuple
InsertFact ==
  /\ pc = "idle"
  /\ NumFacts < MaxFacts
  /\ \E vs \in GoodFactTuples \cup BadFactTuples :
       \/ /\ insert_fact(facts, vs).tag = "Done"
          /\ facts' = insert_fact(facts, vs).facts
          /\ pc' = pc
       \/ /\ insert_fact(facts, vs).tag = "Panic"
          /\ facts' = facts
          /\ pc' = "fatal"
  /\ UNCHANGED <<rules, pb, out, call, ret>>

\* Database::insert_rule
InsertRule ==
  /\ pc = "idle"
  /\ \E id \in RuleIds :
       rules' = insert_rule(rules, id, RuleArgs, RuleBody)
  /\ UNCHANGED <<facts, pc, pb, out, call, ret>>

\* PossibleBindings::new on a constraint built directly
Enumerate ==
  /\ pc = "idle"
  /\ \E c \in Constraints, env \in Envs :
       pb' = PossibleBindings_new(c, env)
  /\ pc' = "enumerating"
  /\ out' = <<>>
  /\ UNCHANGED <<facts, rules, call, ret>>

\* Constraint::new_relation, then PossibleBindings::new on its result
EnumerateRelation ==
  /\ pc = "idle"
  /\ \E vs \in RelationTuples, env \in Envs :
       \/ /\ new_relation(vs).tag = "Ok"
          /\ pb' = PossibleBindings_new(new_relation(vs).constraint, env)
          /\ pc' = "enumerating"
       \/ /\ new_relation(vs).tag = "Err"
          /\ pb' = pb
          /\ pc' = "rejected"
  /\ out' = <<>>
  /\ UNCHANGED <<facts, rules, call, ret>>

\* a next() call returns n.item and leaves the stream as n.self; a crash ends
\* the query
Returned(n) ==
  /\ pb' = n.self
  /\ out' = Append(out, n.item)
  /\ pc' = IF Crashed(n.item) THEN "panicked" ELSE pc

\* PossibleBindings::next
Next_PossibleBindings ==
  /\ pc = "enumerating"
  /\ Len(out) < MaxCalls
  /\ Returned(PossibleBindings_next(pb, db))
  /\ UNCHANGED <<facts, rules, call, ret>>

\* BacktrackingQuery::new: the driver over a constraint list
Drive ==
  /\ pc = "idle"
  /\ \E cs \in ConstraintLists, env \in Envs :
       pb' = [constraints |-> cs, bindings |-> env,
              stream |-> BacktrackingQuery(cs, db, env)]
  /\ pc' = "driving"
  /\ out' = <<>>
  /\ UNCHANGED <<facts, rules, call, ret>>

\* BacktrackingQuery::next
Next_BacktrackingQuery ==
  /\ pc = "driving"
  /\ Len(out) < MaxCalls
  /\ Returned([self |-> [pb EXCEPT !.stream = TapeNext(@).rest],
               item |-> TapeNext(pb.stream).item])
  /\ UNCHANGED <<facts, rules, call, ret>>

Next ==
  \/ InsertFact
  \/ InsertRule
  \/ Enumerate
  \/ EnumerateRelation
  \/ Next_PossibleBindings
  \/ Drive
  \/ Next_BacktrackingQuery

Spec == Init /\ [][Next]_vars

----------------------------------------------------------------------------
(* DBValue's equality and ordering applied to drawn pairs of values.       *)

Name_a == <<97>>
Name_b == <<98>>

ValueInputs ==
  { Number(n) : n \in {-1, 0, 1} }
    \cup { Float(n, d) : n \in {-1, 0, 1}, d \in {0, 1, 5} }
    \cup { Text(Name_a), Text(Name_b), Text(Name_a \o Name_b) }
    \cup { RelationID(Name_p), RelationID(Name_P), RelationID(Name_q) }
    \cup { List(<<>>), List(<<N1>>), List(<<N1, N2>>),
           List(<<List(<<N1>>)>>) }

InitValues ==
  /\ facts = NewDatabase.facts
  /\ rules = NewDatabase.rules
  /\ pc = "idle"
  /\ pb = PossibleBindings_new(Intersections(<<>>), EmptyBindings)
  /\ out = <<>>
  /\ call \in [a : ValueInputs, b : ValueInputs]
  /\ ret = NoCall

\* a == b
Call_eq ==
  /\ pc = "idle"
  /\ ret' = [fn |-> "eq", val |-> DBValue_eq(call.a, call.b)]
  /\ pc' = "returned"
  /\ UNCHANGED <<facts, rules, pb, out, call>>

\* a.partial_cmp(b)
Call_partial_cmp ==
  /\ pc = "idle"
  /\ ret' = [fn |-> "partial_cmp", val |-> DBValue_partial_cmp(call.a, call.b)]
  /\ pc' = "returned"
  /\ UNCHANGED <<facts, rules, pb, out, call>>

\* a > b, a < b, a <= b, a >= b
Call_op ==
  /\ pc = "idle"
  /\ \E op \in EqOp \ {"EqualTo"} :
       ret' = [fn |-> op, val |-> DBValue_op(op, call.a, call.b)]
  /\ pc' = "returned"
  /\ UNCHANGED <<facts, rules, pb, out, call>>

NextValues == Call_eq \/ Call_partial_cmp \/ Call_op

SpecValues == InitValues /\ [][NextValues]_vars

----------------------------------------------------------------------------
(* lax_unify applied to drawn sequences and environments.                  *)

Tokens == {L1, L2, VX, VY}

TokenSeqs ==
  {<<>>} \cup { <<a>> : a \in Tokens } \cup { <<a, b>> : a \in Tokens, b \in Tokens }

N3 == Number(3)
N4 == Number(4)
L9 == Literal(Number(9))

ListInputs == { <<>>, <<N1>>, <<N1, N2>>, <<N2, N1, N2>>, <<N1, N2, N3, N4>> }

ExplicitInputs ==
  { <<>>, <<VX>>, <<L2>>, <<VX, VY>>, <<L2, VX>>, <<L9, VX>> }

PatternInputs ==
  { PatternMatch(e, FALSE, "Head") : e \in ExplicitInputs }
    \cup { PatternMatch(e, TRUE, g) :
             e \in ExplicitInputs, g \in {"Head", "Tail", "Middle"} }

LeftInputs == TokenSeqs \cup { <<Literal(List(l))>> : l \in ListInputs }

RightInputs ==
  TokenSeqs \cup { <<Literal(List(l))>> : l \in ListInputs }
            \cup { <<q>> : q \in PatternInputs }

\* the environments unify is entered with: empty, one literal, a chain, and
\* the cycle that unify([X, Y], [Y, X], {}) returns
UnifyEnvs ==
  { EmptyBindings,
    [k \in {"X"} |-> L1],
    [k \in {"X", "Y"} |-> IF k = "X" THEN VY ELSE L1],
    [k \in {"X", "Y"} |-> IF k = "X" THEN VY ELSE VX] }

InitUnify ==
  /\ facts = NewDatabase.facts
  /\ rules = NewDatabase.rules
  /\ pc = "idle"
  /\ pb = PossibleBindings_new(Intersections(<<>>), EmptyBindings)
  /\ out = <<>>
  /\ call \in [av : LeftInputs, bv : RightInputs, env : UnifyEnvs]
  /\ ret = NoCall

\* lax_unify(av, bv, env)
Call_lax_unify ==
  /\ pc = "idle"
  /\ ret' = lax_unify(call.av, call.bv, call.env)
  /\ pc' = "returned"
  /\ UNCHANGED <<facts, rules, pb, out, call>>

\* lax_unify(bv, av, env): the pattern on the left
Call_lax_unify_mirror ==
  /\ pc = "idle"
  /\ ret' = lax_unify(call.bv, call.av, call.env)
  /\ pc' = "mirrored"
  /\ UNCHANGED <<facts, rules, pb, out, call>>

\* a call on the shared map call.env returned r.result and left r.shared
\* behind the Rc
ReturnedShared(r, to) ==
  /\ ret' = r.result
  /\ call' = [call EXCEPT !.env = r.shared]
  /\ pc' = to

\* lax_unify_wrap(av, bv, Rc(env))
Call_lax_unify_wrap ==
  /\ pc = "idle"
  /\ ReturnedShared(lax_unify_wrap_rc(call.av, call.bv, call.env), "wrapped")
  /\ UNCHANGED <<facts, rules, pb, out>>

\* unify_wrap(av, bv, Rc(env))
Call_unify_wrap ==
  /\ pc = "idle"
  /\ ReturnedShared(unify_wrap_rc(call.av, call.bv, call.env), "unwrapped")
  /\ UNCHANGED <<facts, rules, pb, out>>

\* unify_compare(op, a, b, Rc(env)) on the first values of the two sequences
Call_unify_compare ==
  /\ pc = "idle"
  /\ Len(call.av) >= 1
  /\ Len(call.bv) >= 1
  /\ \E op \in EqOp :
       ret' = [tag |-> "Compared", op |-> op,
               val |-> unify_compare(op, call.av[1], call.bv[1], call.env)]
  /\ pc' = "compared"
  /\ UNCHANGED <<facts, rules, pb, out, call>>

NextUnify ==
  \/ Call_unify_compare
  \/ Call_lax_unify
  \/ Call_lax_unify_mirror
  \/ Call_lax_unify_wrap
  \/ Call_unify_wrap

SpecUnify == InitUnify /\ [][NextUnify]_vars

----------------------------------------------------------------------------
(* What the properties below are stated with.                              *)

\* some next() call so far returned None: the first end of stream was seen
Ended == \E i \in 1..Len(out) : out[i].tag = "None"

HasOk(t) == \E i \in 1..Len(t) : t[i].tag = "Ok"

IsOk(x) == x.tag = "Ok"

OkItems(t) == SelectSeq(t, IsOk)

\* equality as section 3 of the specification defines it: structural within a
\* tag, so lists of one length with equal elements are equal
RECURSIVE StructuralEq(_, _)
StructuralEq(a, b) ==
  IF a.tag = "List" /\ b.tag = "List"
  THEN /\ Len(a.xs) = Len(b.xs)
       /\ \A i \in 1..Len(a.xs) : StructuralEq(a.xs[i], b.xs[i])
  ELSE DBValue_eq(a, b)

\* v with the binding chains of env followed
RECURSIVE Resolve(_, _, _)
Resolve(v, env, depth) ==
  IF v.tag = "Variable" /\ v.name \in DOMAIN env /\ depth > 0
  THEN Resolve(env[v.name], env, depth - 1)
  ELSE v

Resolved(v, env) == Resolve(v, env, MaxDepth)

Unbound(v, env) == v.tag = "Variable" /\ v.name \notin DOMAIN env

\* l and r are equal once env is substituted into both.  Two literals are
\* compared by structural equality, two unbound variables by name, and a
\* literal is not an unbound variable.  A pattern, or a chain that does not
\* end, is not judged.
EqualUnder(env, l, r) ==
  LET a == Resolved(l, env)
      b == Resolved(r, env)
  IN CASE a.tag = "Literal" /\ b.tag = "Literal" -> StructuralEq(a.v, b.v)
       [] Unbound(a, env) /\ Unbound(b, env) -> a.name = b.name
       [] a.tag = "Literal" /\ Unbound(b, env) -> FALSE
       [] Unbound(a, env) /\ b.tag = "Literal" -> FALSE
       [] OTHER -> TRUE

\* a leaf constraint is true once env is substituted into it; a position
\* that env leaves a variable is not judged
RECURSIVE Satisfied(_, _, _)
Satisfied(c, fs, env) ==
  CASE c.tag = "Comparison" ->
         LET a == Resolved(c.a, env)
             b == Resolved(c.b, env)
         IN (a.tag = "Literal" /\ b.tag = "Literal")
              => DBValue_op(c.op, a.v, b.v)
    [] c.tag = "Unification" ->
         \A i \in 1..Min(Len(c.avs), Len(c.bvs)) :
           LET a == Resolved(c.avs[i], env)
               b == Resolved(c.bvs[i], env)
           IN (a.tag = "Literal" /\ b.tag = "Literal")
                => StructuralEq(a.v, b.v)
    [] c.tag = "Relation" ->
         /\ to_uppercase(c.id) \in DOMAIN fs
         /\ \E k \in 1..Len(fs[to_uppercase(c.id)]) :
              \A i \in 1..Min(Len(c.tokens), Len(fs[to_uppercase(c.id)][k])) :
                LET a == Resolved(c.tokens[i], env)
                IN a.tag = "Literal"
                     => StructuralEq(a.v, fs[to_uppercase(c.id)][k][i])
    [] c.tag = "Not" -> ~Satisfied(c.c, fs, env)
    [] c.tag = "Alternatives" ->
         \E i \in 1..Len(c.cs) : Satisfied(c.cs[i], fs, env)
    [] c.tag = "Intersections" ->
         \A i \in 1..Len(c.cs) : Satisfied(c.cs[i], fs, env)

\* what a fresh PossibleBindings over c yields before its first None, in the
\* database and environment of the open stream
DrawnFrom(c) == UntilNone(PossibleBindings_tape(c, db, pb.bindings))

Enumerating(tag) == pc = "enumerating" /\ pb.constraint.tag = tag

\* a PossibleBindings stream is open, or has crashed
Streaming ==
  pc \in {"enumerating", "panicked"} /\ "constraint" \in DOMAIN pb

\* a Number as the Float with fractional part zero
AsFloat(v) == IF v.tag = "Number" THEN Float(v.n, 0) ELSE v

----------------------------------------------------------------------------
(* The claims.                                                             *)

\* C1: every binding the driver emits makes every constraint of its list true
\* when substituted; for [Comparison(op, X, k), Unification([X], [m])] the
\* binding {X: m} is emitted only when m op k holds.
C1_DriverSound ==
  pc = "driving" =>
    \A i \in 1..Len(out) :
      out[i].tag = "Ok" =>
        \A k \in 1..Len(pb.constraints) :
          Satisfied(pb.constraints[k], facts, out[i].env)

\* C2: whenever unify(L, R, env) returns Ok(env'), L[i] and R[i] are equal
\* under env' at every index below the shorter length.
C2_UnifySound ==
  (pc \in {"returned", "mirrored"} /\ ret.tag = "Ok") =>
    \A i \in 1..Min(Len(call.av), Len(call.bv)) :
      EqualUnder(ret.env, call.av[i], call.bv[i])

\* C3: the stream of Not(c) contains an Ok item if and only if the stream of
\* c contains none.
C3_NegationAsFailure ==
  (Enumerating("Not") /\ Exhausted(pb)) =>
    (HasOk(out) <=>
       ~HasOk(PossibleBindings_tape(pb.constraint.c, db, pb.bindings)))

\* C4: up to its first None, Intersections(cs) yields the bindings the driver
\* produces for cs, and Intersections([c]) yields exactly the Ok items of c.
C4_IntersectionsIsDriver ==
  (Enumerating("Intersections") /\ Ended) =>
    /\ UntilNone(out)
         = UntilNone(BacktrackingQuery(pb.constraint.cs, db, pb.bindings))
    /\ Len(pb.constraint.cs) = 1 =>
         UntilNone(out) = OkItems(DrawnFrom(pb.constraint.cs[1]))

\* the items of the i-th alternative, and how many items precede them
AltDrawn(i) == DrawnFrom(pb.constraint.cs[i])

RECURSIVE AltStart(_)
AltStart(i) == IF i <= 1 THEN 0 ELSE AltStart(i - 1) + Len(AltDrawn(i - 1))

\* the last alternative that is opened: the first whose stream crashes
AltLast ==
  LET n == Len(pb.constraint.cs)
      bad == { i \in 1..n : EndsCrashed(AltDrawn(i)) }
  IN IF bad = {} THEN n ELSE CHOOSE i \in bad : \A j \in bad : i <= j

\* C5: the items of Alternatives([c1..ck]) are the items of c1, then those of
\* c2, and so on, each where the concatenation puts it; once the stream has
\* ended (or crashed inside some ci) nothing is missing.
C5_AlternativesInOrder ==
  (Streaming /\ pb.constraint.tag = "Alternatives") =>
    LET got == UntilNone(out)
        total == AltStart(AltLast + 1)
    IN /\ Len(got) <= total
       /\ \A i \in 1..AltLast :
            \A j \in 1..Len(AltDrawn(i)) :
              AltStart(i) + j <= Len(got)
                => got[AltStart(i) + j] = AltDrawn(i)[j]
       /\ (Ended \/ pc = "panicked") => Len(got) = total

\* C5's case: two alternatives with different, non-empty streams, drawn to
\* the end
C5_Witness ==
  /\ Enumerating("Alternatives")
  /\ Len(pb.constraint.cs) = 2
  /\ Ended
  /\ AltDrawn(1) # <<>>
  /\ AltDrawn(2) # <<>>
  /\ AltDrawn(1) # AltDrawn(2)
  /\ UntilNone(out) = AltDrawn(1) \o AltDrawn(2)

\* C6: Not(Not(c)) yields an Ok item iff c has a success, and each Ok item it
\* yields is the environment the stream was opened with.
C6_DoubleNegation ==
  (Enumerating("Not") /\ pb.constraint.c.tag = "Not" /\ Exhausted(pb)) =>
    /\ HasOk(out) <=>
         HasOk(PossibleBindings_tape(pb.constraint.c.c, db, pb.bindings))
    /\ \A i \in 1..Len(out) : out[i].tag = "Ok" => out[i].env = pb.bindings

\* C7: every key of the facts and rules tables is upper-cased, and a Relation
\* constraint, however its id is spelled and however it was built, enumerates
\* every fact stored under that name.
C7_CaseInsensitive ==
  /\ \A k \in (DOMAIN facts) \cup (DOMAIN rules) : k = to_uppercase(k)
  /\ (Enumerating("Relation") /\ Exhausted(pb)) =>
       \A k \in DOMAIN facts :
         k = to_uppercase(pb.constraint.id)
           => Len(UntilNone(out)) = Len(facts[k])

\* C8: equality and ordering treat a Number as the Float with fractional part
\* zero, on either side.
C8_NumberIsFloatZero ==
  (pc = "returned" /\ {call.a.tag, call.b.tag} = {"Number", "Float"}) =>
    ret.val =
      (CASE ret.fn = "eq" -> DBValue_eq(AsFloat(call.a), AsFloat(call.b))
         [] ret.fn = "partial_cmp" ->
              DBValue_partial_cmp(AsFloat(call.a), AsFloat(call.b))
         [] OTHER -> DBValue_op(ret.fn, AsFloat(call.a), AsFloat(call.b)))

\* C9: equality is structural within every tag, List included: lists of one
\* length with pairwise equal elements are equal, and every value equals
\* itself.
C9_StructuralEquality ==
  (pc = "returned" /\ ret.fn = "eq") =>
    /\ ret.val = StructuralEq(call.a, call.b)
    /\ call.a = call.b => ret.val

\* C10: no next() call on a query stream ends in a panic.
C10_NoCrash ==
  \A i \in 1..Len(out) : ~Crashed(out[i])

\* the facts stored under the key id, in the order of the table
FactsOf(id) == IF id \in DOMAIN facts THEN facts[id] ELSE <<>>

\* the k-th next() on a Relation stream returns the result of unifying the
\* tokens with the k-th stored fact, and None once the facts are used up
C11_ItemPerFact ==
  (Streaming /\ pb.constraint.tag = "Relation") =>
    \A k \in 1..Len(out) :
      out[k] = IF k <= Len(FactsOf(pb.constraint.id))
               THEN lax_unify_wrap(pb.constraint.tokens,
                                   AsLiterals(FactsOf(pb.constraint.id)[k]),
                                   pb.bindings)
               ELSE None

\* a step keeps every stored fact at its place, and grows at most one
\* relation, by one fact at its end
C11_Appends ==
  /\ \A k \in DOMAIN facts :
       /\ k \in DOMAIN facts'
       /\ Len(facts'[k]) >= Len(facts[k])
       /\ SubSeq(facts'[k], 1, Len(facts[k])) = facts[k]
  /\ Cardinality({ k \in DOMAIN facts' :
                     Len(facts'[k]) # Len(FactsOf(k)) }) <= 1
  /\ \A k \in DOMAIN facts' : Len(facts'[k]) <= Len(FactsOf(k)) + 1

\* C11: a Relation stream yields one item per fact stored under its id and
\* no other, the k-th being unify(tokens, k-th inserted fact, env); inserting
\* a fact appends it and leaves every stored fact and every other relation as
\* they were.
C11_InsertionOrder == [](C11_ItemPerFact) /\ [][C11_Appends]_vars

\* C11's case: two different facts under one relation, enumerated to the end,
\* with different results
C11_Witness ==
  /\ Enumerating("Relation")
  /\ Len(FactsOf(pb.constraint.id)) = 2
  /\ FactsOf(pb.constraint.id)[1] # FactsOf(pb.constraint.id)[2]
  /\ Len(out) >= 3
  /\ out[1] # out[2]
  /\ out[3] = None

MiddleCall ==
  /\ pc \in {"returned", "mirrored"}
  /\ Len(call.av) = 1
  /\ Len(call.bv) = 1
  /\ IsListLiteral(call.av[1])
  /\ call.bv[1].tag = "PatternMatch"
  /\ call.bv[1].is_glob
  /\ call.bv[1].glob_position = "Middle"

HasVariable(vs) == \E i \in 1..Len(vs) : vs[i].tag = "Variable"

\* C13: when a Middle pattern that contains a variable matches a non-empty
\* list at no position, unify returns Err with a partial env of at least one
\* key; so for [Literal 9, Variable X] against [1, 2, 3, 4] under the empty
\* env.
C13_BestPartial ==
  (/\ MiddleCall
   /\ call.av[1].v.xs # <<>>
   /\ HasVariable(call.bv[1].explicit_values)
   /\ ret.tag \notin {"Ok", "Overflow"})
    => (ret.tag = "Err" /\ MapLen(ret.env) >= 1)

\* C14: every Ok item of a Not(c) stream carries exactly the environment the
\* stream was opened with.
C14_NotAddsNoBindings ==
  (Streaming /\ pb.constraint.tag = "Not") =>
    \A i \in 1..Len(out) : out[i].tag = "Ok" => out[i].env = pb.bindings

\* env2 holds every binding of env1, unchanged
Extends(env2, env1) ==
  \A k \in DOMAIN env1 : k \in DOMAIN env2 /\ env2[k] = env1[k]

\* C15: each Ok(env') unify returns contains every variable bound in env,
\* bound to the same value as in env.
C15_SuccessExtendsEnv ==
  (pc \in {"returned", "mirrored", "wrapped", "unwrapped"} /\ ret.tag = "Ok")
    => Extends(ret.env, call.env)

\* the attempt of a Middle call at start index i: explicit_values against
\* xs[i..i + n]
MiddleAttempt(i) ==
  lax_unify(call.bv[1].explicit_values,
            SubSeq(AsLiterals(call.av[1].v.xs), i + 1,
                   i + Len(call.bv[1].explicit_values)),
            call.env)

\* the start indices in [0, L] whose slice lies within the list
MiddleStarts ==
  0..(Len(call.av[1].v.xs) - Len(call.bv[1].explicit_values))

MiddleSuccesses == { i \in MiddleStarts : MiddleAttempt(i).tag = "Ok" }

\* C16: a Middle match that returns is Ok iff some attempt at a start index
\* in [0, L] succeeds, and is then the result of the last such attempt;
\* otherwise it is Err with a partial env at least as large as that of every
\* attempt.  The attempt at i = L counts, so an empty pattern matches an
\* empty list.
C16_MiddleSelection ==
  (MiddleCall /\ ret.tag \in {"Ok", "Err"}) =>
    /\ ret.tag = "Ok" <=> MiddleSuccesses # {}
    /\ \A i \in MiddleSuccesses :
         (\A j \in MiddleSuccesses : j <= i) => ret = MiddleAttempt(i)
    /\ MiddleSuccesses = {} =>
         \A i \in MiddleStarts :
           MapLen(ret.env) >= MapLen(MiddleAttempt(i).env)

\* C17: once next() on a PossibleBindings stream has returned None, every
\* later next() on it returns None.
C17_SinglePass ==
  Streaming =>
    \A i \in 1..Len(out) : \A j \in i..Len(out) :
      out[i].tag = "None" => out[j].tag = "None"

\* the length of the shorter of the two sequences unify was called with
Shorter == Min(Len(call.av), Len(call.bv))

\* C18: unify(L, R, env) returns what unify returns on the first
\* min(len L, len R) elements of both, and Ok(env) when that is none.
C18_Lockstep ==
  pc = "returned" =>
    /\ ret = lax_unify(Take(call.av, Shorter), Take(call.bv, Shorter),
                       call.env)
    /\ Shorter = 0 => ret = Ok(call.env)

\* C18's case: sequences of different lengths whose common prefix unifies
\* with a new binding
C18_Witness ==
  /\ pc = "returned"
  /\ Len(call.av) # Len(call.bv)
  /\ Shorter >= 1
  /\ ret.tag = "Ok"
  /\ ret.env # call.env

\* the database with the same facts and no rule
RuleFree == [facts |-> facts, rules |-> EmptyBindings]

\* what the i-th next() on a stream with the future t returns
ItemAt(t, i) == IF i <= Len(t) THEN t[i] ELSE None

\* every item returned so far is the item the same stream returns over the
\* database without its rules
C19_SameItems ==
  /\ Streaming =>
       \A i \in 1..Len(out) :
         out[i] = ItemAt(PossibleBindings_tape(pb.constraint, RuleFree,
                                               pb.bindings), i)
  /\ "constraints" \in DOMAIN pb =>
       \A i \in 1..Len(out) :
         out[i] = ItemAt(BacktrackingQuery(pb.constraints, RuleFree,
                                           pb.bindings), i)

\* C19: a stream yields the same items whatever rules the database holds
\* beside its facts, and a step that changes the rules table leaves the facts
\* table as it was.
C19_RulesDoNotInfluence ==
  [](C19_SameItems) /\ [][rules' # rules => facts' = facts]_vars

\* C19's case: a Relation stream over a relation that has both facts and a
\* rule, drawn to its end with a success
C19_Witness ==
  /\ Enumerating("Relation")
  /\ pb.constraint.id \in DOMAIN rules
  /\ HasOk(out)
  /\ Ended

\* the chain of bindings from the variable v never reaches a literal or an
\* unbound variable
CyclicAt(v, env) ==
  /\ v.tag = "Variable"
  /\ v.name \in DOMAIN env
  /\ Resolved(v, env).tag = "Variable"
  /\ Resolved(v, env).name \in DOMAIN env

Acyclic(env) == \A k \in DOMAIN env : ~CyclicAt(Variable(k), env)

\* the variable-to-variable bindings of env, and those the pairs
\* (Variable a, Variable b) of a call make, as edges a -> b
BindingEdges(env) ==
  { <<k, env[k].name>> : k \in { x \in DOMAIN env : env[x].tag = "Variable" } }

PairEdges(av, bv) ==
  { <<av[i].name, bv[i].name>> :
      i \in { j \in 1..Min(Len(av), Len(bv)) :
                av[j].tag = "Variable" /\ bv[j].tag = "Variable" } }

RECURSIVE Closure(_, _)
Closure(E, n) ==
  IF n = 0 THEN E
  ELSE Closure(E \cup { <<p[1][1], p[2][2]>> :
                          p \in { q \in E \X E : q[1][2] = q[2][1] } },
               n - 1)

NoLoop(E) == \A v \in VariableName : <<v, v>> \notin Closure(E, MaxDepth)

\* unify([X, Y], [Y, X], {}) returns the cyclic env
C20_CycleReachable ==
  (pc = "returned" /\ call.av = <<VX, VY>> /\ call.bv = <<VY, VX>>
     /\ call.env = EmptyBindings)
    => ret = Ok([k \in {"X", "Y"} |-> IF k = "X" THEN VY ELSE VX])

\* under an env that is cyclic at the variable, resolving it against a
\* literal by unify, or against a variable by compare, does not return
C20_CycleLoops ==
  /\ (pc = "returned" /\ Len(call.av) = 1 /\ Len(call.bv) = 1
        /\ CyclicAt(call.av[1], call.env) /\ call.bv[1].tag = "Literal")
       => ret = Overflow
  /\ (pc = "compared" /\ CyclicAt(call.av[1], call.env)
        /\ CyclicAt(call.bv[1], call.env))
       => ret.val = "overflow"

\* compare returns under every acyclic env
C20_CompareTerminates ==
  (pc = "compared" /\ Acyclic(call.env)) => ret.val # "overflow"

\* C20 as stated: the cyclic env is reachable through unify, resolving under
\* it does not terminate, and under every acyclic env unify and compare
\* terminate.
C20_AsClaimed ==
  /\ C20_CycleReachable
  /\ C20_CycleLoops
  /\ C20_CompareTerminates
  /\ (pc \in {"returned", "mirrored"} /\ Acyclic(call.env))
       => ret # Overflow

\* C20 amended: the cyclic env is reachable through unify, resolving under it
\* does not terminate, compare terminates under every acyclic env, and unify
\* terminates when env together with the variable-to-variable bindings its
\* own pairs make is acyclic.
C20_NoOccursCheck ==
  /\ C20_CycleReachable
  /\ C20_CycleLoops
  /\ C20_CompareTerminates
  /\ (pc = "returned"
        /\ NoLoop(BindingEdges(call.env) \cup PairEdges(call.av, call.bv)))
       => ret # Overflow
  /\ (pc = "mirrored"
        /\ NoLoop(BindingEdges(call.env) \cup PairEdges(call.bv, call.av)))
       => ret # Overflow

\* C20's case: a variable resolved against a literal under the cyclic env
C20_Witness ==
  /\ pc = "returned"
  /\ call.av = <<VX>>
  /\ call.bv = <<L1>>
  /\ CyclicAt(VX, call.env)
  /\ ret = Overflow

====
